---- MODULE Spec2Model ----
(***************************************************************************)
(* Model of the dynamic-DNS updater in src/main.py: one run of the script  *)
(* from "Running script..." to exit().  The run reads argv, one JSON       *)
(* config file, performs one HTTP GET against the IP echo service and one  *)
(* HTTP PUT against the DNS provider.  The file content and the two HTTP   *)
(* outcomes are the environment's choice.                                  *)
(***************************************************************************)
EXTENDS Integers, Sequences, FiniteSets, TLC

VARIABLES
    argv,          \* sys.argv: <<script, arg1, ...>>
    file,          \* what is on disk at the config path
    pc,            \* position of the run inside __main__ / main()
    config,        \* main's local `config`: None or Some(Config)
    address,       \* main's local `address`: None or Some(address object)
    result,        \* value returned by main(): None until it returns
    exit_code,     \* status handed to exit(): None until the process exits
    steps,         \* history: the I/O steps attempted, in order
    get_response,  \* history: outcome of requests.get, None before the call
    parse_calls,   \* history: number of calls of ip_address()
    puts,          \* history: the PUT requests handed to requests.put
    put_response,  \* history: outcome of requests.put, None before the call
    log_lines      \* the lines printed by log(), without their timestamp

vars == <<argv, file, pc, config, address, result, exit_code, steps,
          get_response, parse_calls, puts, put_response, log_lines>>

(***************************************************************************)
(* Bounds of the model.                                                    *)
(***************************************************************************)
MaxArgs == 2       \* command-line arguments given: 0..MaxArgs
TtlSpan == 1       \* integer ttl literals range over MinTtl-TtlSpan..MinTtl+TtlSpan

(***************************************************************************)
(* Program constants.                                                      *)
(***************************************************************************)
MinTtl == 300      \* is_valid: self.ttl < 300
StatusOk == 200    \* get_ip_address: response.status_code != 200
StatusCreated == 201  \* update_domain: response.status_code != 201

(***************************************************************************)
(* Optional values: Python's None and a present value.                     *)
(***************************************************************************)
None == <<>>
Some(v) == <<v>>
Get(o) == o[1]

(***************************************************************************)
(* Python values.  One record layout for every type so that values of      *)
(* different types can be compared: t is the Python type, s the text of a  *)
(* str, n the number of an int or bool, or twice the value of a float.     *)
(***************************************************************************)
PyStr(s) == [t |-> "str", s |-> s, n |-> 0]
PyInt(n) == [t |-> "int", s |-> "", n |-> n]
PyBool(b) == [t |-> "bool", s |-> "", n |-> IF b THEN 1 ELSE 0]
PyFloat(halves) == [t |-> "float", s |-> "", n |-> halves]
PyNone == [t |-> "NoneType", s |-> "", n |-> 0]
PyList == [t |-> "list", s |-> "", n |-> 0]

\* isinstance(v, str)
IsInstanceStr(v) == v.t = "str"
\* isinstance(v, int): bool is a subclass of int
IsInstanceInt(v) == v.t \in {"int", "bool"}

(***************************************************************************)
(* JSON documents.  jt is the JSON syntax class of the value; a number     *)
(* literal without fraction or exponent is "integer", any other number     *)
(* literal is "real" (n holds twice its value).                            *)
(***************************************************************************)
JString(s) == [jt |-> "string", s |-> s, n |-> 0]
JInteger(n) == [jt |-> "integer", s |-> "", n |-> n]
JReal(halves) == [jt |-> "real", s |-> "", n |-> halves]
JTrue == [jt |-> "true", s |-> "", n |-> 0]
JFalse == [jt |-> "false", s |-> "", n |-> 0]
JNull == [jt |-> "null", s |-> "", n |-> 0]
JArray == [jt |-> "array", s |-> "", n |-> 0]

Texts == {"tok", "example.com", ""}
IntLiterals == {0} \cup ((MinTtl - TtlSpan)..(MinTtl + TtlSpan))
RealLiterals == {2 * MinTtl - 1, 2 * MinTtl, 2 * MinTtl + 1}
JValues ==
    {JString(s) : s \in Texts} \cup {JInteger(n) : n \in IntLiterals}
    \cup {JReal(h) : h \in RealLiterals} \cup {JTrue, JFalse, JNull, JArray}

Keys == {"pat", "domain", "ttl", "extra"}
NoMembers == [k \in {} |-> JNull]

\* A file is unreadable (open() raises), not JSON (json.load raises), a JSON
\* value that is not an object, or a JSON object.
Files ==
    {[readable |-> FALSE, json |-> FALSE, object |-> FALSE,
      value |-> JNull, members |-> NoMembers],
     [readable |-> TRUE, json |-> FALSE, object |-> FALSE,
      value |-> JNull, members |-> NoMembers]}
    \cup {[readable |-> TRUE, json |-> TRUE, object |-> FALSE,
           value |-> v, members |-> NoMembers] : v \in JValues}
    \cup {[readable |-> TRUE, json |-> TRUE, object |-> TRUE,
           value |-> JNull, members |-> m] :
              m \in UNION {[ks -> JValues] : ks \in SUBSET Keys}}

\* json_load with every number decoded as a float
json_load_int_as_float(j) ==
    CASE j.jt = "string" -> PyStr(j.s)
      [] j.jt = "integer" -> PyFloat(2 * j.n)
      [] j.jt = "real" -> PyFloat(j.n)
      [] j.jt = "true" -> PyBool(TRUE)
      [] j.jt = "false" -> PyBool(FALSE)
      [] j.jt = "null" -> PyNone
      [] j.jt = "array" -> PyList

\* json.load's decoding of one JSON value into a Python value
json_load(j) ==
    CASE j.jt = "string" -> PyStr(j.s)
      [] j.jt = "integer" -> PyInt(j.n)
      [] j.jt = "real" -> PyFloat(j.n)
      [] j.jt = "true" -> PyBool(TRUE)
      [] j.jt = "false" -> PyBool(FALSE)
      [] j.jt = "null" -> PyNone
      [] j.jt = "array" -> PyList

(***************************************************************************)
(* class Config                                                            *)
(***************************************************************************)
Config(pat, domain, ttl) == [pat |-> pat, domain |-> domain, ttl |-> ttl]

\* is_valid with the ttl bound off by one
is_valid_off_by_one(c) ==
    /\ IsInstanceStr(c.pat)
    /\ IsInstanceStr(c.domain)
    /\ IsInstanceInt(c.ttl)
    /\ ~(c.ttl.n < MinTtl - 1)

\* is_valid without the lower bound on ttl
is_valid_no_min_ttl(c) ==
    /\ IsInstanceStr(c.pat)
    /\ IsInstanceStr(c.domain)
    /\ IsInstanceInt(c.ttl)

\* Config.is_valid: the first failing check decides
is_valid(c) ==
    /\ IsInstanceStr(c.pat)
    /\ IsInstanceStr(c.domain)
    /\ IsInstanceInt(c.ttl)
    /\ ~(c.ttl.n < MinTtl)

\* the line is_valid logs, if any
is_valid_log(c) ==
    IF ~IsInstanceStr(c.pat) THEN <<"Field 'pat' is not a string.">>
    ELSE IF ~IsInstanceStr(c.domain) THEN <<"Field 'domain' is not a string.">>
    ELSE IF ~IsInstanceInt(c.ttl) THEN <<"Field 'ttl' is not an integer.">>
    ELSE IF c.ttl.n < MinTtl
         THEN <<"Field 'ttl' must be greater or equal than 300.">>
    ELSE <<>>

\* load_config_try that picks the three fields and ignores any other key
load_config_try_ignore_extra(f) ==
    IF ~f.readable \/ ~f.json \/ ~f.object THEN None
    ELSE IF ~({"pat", "domain", "ttl"} \subseteq DOMAIN f.members) THEN None
    ELSE Some(Config(json_load(f.members["pat"]),
                     json_load(f.members["domain"]),
                     json_load(f.members["ttl"])))

\* the try block of load_config: open, json.load, Config(**data).  None
\* stands for the raised exception.  Config(**data) raises TypeError unless
\* data is a dict whose keys are exactly the three fields.
load_config_try(f) ==
    IF ~f.readable \/ ~f.json \/ ~f.object THEN None
    ELSE IF DOMAIN f.members # {"pat", "domain", "ttl"} THEN None
    ELSE Some(Config(json_load(f.members["pat"]),
                     json_load(f.members["domain"]),
                     json_load(f.members["ttl"])))

\* load_config's return value
load_config(f) ==
    LET c == load_config_try(f) IN
        IF c = None THEN None
        ELSE IF ~is_valid(Get(c)) THEN None
        ELSE c

\* the lines load_config logs
load_config_log(f) ==
    LET c == load_config_try(f) IN
        <<"Loading config...">>
        \o (IF c = None THEN <<"Failed to load config">>
            ELSE IF ~is_valid(Get(c))
                 THEN is_valid_log(Get(c)) \o <<"Config is invalid.">>
            ELSE <<>>)

(***************************************************************************)
(* Text of an HTTP body and of an address: a sequence of characters.       *)
(* ipaddress.ip_address and str() of its result, as the standard library   *)
(* computes them (without IPv6 scope ids: no body of the model holds '%'). *)
(***************************************************************************)
DecDigits == <<"0", "1", "2", "3", "4", "5", "6", "7", "8", "9">>
HexLower == DecDigits \o <<"a", "b", "c", "d", "e", "f">>
HexUpper == DecDigits \o <<"A", "B", "C", "D", "E", "F">>

Range(f) == {f[i] : i \in DOMAIN f}
IndexOf(seq, c) == CHOOSE i \in DOMAIN seq : seq[i] = c
HexVal(c) == IF c \in Range(HexLower) THEN IndexOf(HexLower, c) - 1
             ELSE IndexOf(HexUpper, c) - 1

\* str.split(sep)
RECURSIVE Split(_, _)
Split(s, sep) ==
    IF \E i \in 1..Len(s) : s[i] = sep
    THEN LET i == CHOOSE k \in 1..Len(s) :
                      s[k] = sep /\ \A j \in 1..(k - 1) : s[j] # sep
         IN  <<SubSeq(s, 1, i - 1)>> \o Split(SubSeq(s, i + 1, Len(s)), sep)
    ELSE <<s>>

\* sep.join(parts)
RECURSIVE Join(_, _)
Join(parts, sep) ==
    IF parts = <<>> THEN <<>>
    ELSE IF Len(parts) = 1 THEN parts[1]
    ELSE parts[1] \o <<sep>> \o Join(Tail(parts), sep)

\* int(s, base) of a non-empty string of digits of that base
RECURSIVE ParseInt(_, _, _)
ParseInt(s, base, acc) ==
    IF s = <<>> THEN acc
    ELSE ParseInt(Tail(s), base, acc * base + HexVal(s[1]))

\* '%d' % n and '%x' % n
RECURSIVE Format(_, _)
Format(n, base) ==
    IF n < base THEN <<HexLower[n + 1]>>
    ELSE Format(n \div base, base) \o <<HexLower[(n % base) + 1]>>

\* IPv4Address._parse_octet does not raise
OctetOk(o) ==
    /\ o # <<>>
    /\ \A i \in 1..Len(o) : o[i] \in Range(DecDigits)
    /\ Len(o) <= 3
    /\ ~(o # <<"0">> /\ o[1] = "0")
    /\ ParseInt(o, 10, 0) <= 255

\* IPv4Address(text) does not raise
IPv4Ok(text) ==
    /\ text # <<>>
    /\ \A i \in 1..Len(text) : text[i] # "/"
    /\ LET octets == Split(text, ".") IN
           /\ Len(octets) = 4
           /\ \A i \in 1..4 : OctetOk(octets[i])

IPv4Octets(text) ==
    LET octets == Split(text, ".") IN
        [i \in 1..4 |-> ParseInt(octets[i], 10, 0)]

\* IPv6Address._parse_hextet does not raise
HextetOk(h) ==
    /\ \A i \in 1..Len(h) : h[i] \in Range(HexLower) \cup Range(HexUpper)
    /\ Len(h) <= 4
    /\ h # <<>>

\* IPv6Address._ip_int_from_string: the parts after an embedded IPv4 tail
\* has been replaced by its two hextets
IPv6Parts(text) ==
    LET parts == Split(text, ":")
        last == parts[Len(parts)]
    IN  IF \E i \in 1..Len(last) : last[i] = "."
        THEN LET o == IPv4Octets(last) IN
                 SubSeq(parts, 1, Len(parts) - 1)
                 \o <<Format(o[1] * 256 + o[2], 16),
                      Format(o[3] * 256 + o[4], 16)>>
        ELSE parts

\* position of '::' among the parts: the empty parts strictly inside
SkipIndexes(parts) == {i \in 2..(Len(parts) - 1) : parts[i] = <<>>}

\* number of parts before and after the '::'
PartsHi(parts) ==
    IF SkipIndexes(parts) = {} THEN Len(parts)
    ELSE LET skip == CHOOSE i \in SkipIndexes(parts) : TRUE IN
             IF parts[1] = <<>> THEN skip - 2 ELSE skip - 1
PartsLo(parts) ==
    IF SkipIndexes(parts) = {} THEN 0
    ELSE LET skip == CHOOSE i \in SkipIndexes(parts) : TRUE IN
             IF parts[Len(parts)] = <<>> THEN Len(parts) - skip - 1
             ELSE Len(parts) - skip

\* IPv6Address(text) does not raise
IPv6Ok(text) ==
    /\ text # <<>>
    /\ \A i \in 1..Len(text) : text[i] # "/"
    /\ Len(Split(text, ":")) >= 3
    /\ LET raw == Split(text, ":")
           last == raw[Len(raw)]
       IN  (\E i \in 1..Len(last) : last[i] = ".") => IPv4Ok(last)
    /\ LET parts == IPv6Parts(text)
           hi == PartsHi(parts)
           lo == PartsLo(parts)
       IN  /\ Len(parts) <= 9
           /\ Cardinality(SkipIndexes(parts)) <= 1
           /\ IF SkipIndexes(parts) # {}
              THEN /\ parts[1] = <<>> => hi = 0
                   /\ parts[Len(parts)] = <<>> => lo = 0
                   /\ 8 - (hi + lo) >= 1
              ELSE /\ Len(parts) = 8
                   /\ parts[1] # <<>>
                   /\ parts[Len(parts)] # <<>>
           /\ \A i \in 1..hi : HextetOk(parts[i])
           /\ \A i \in (Len(parts) - lo + 1)..Len(parts) : HextetOk(parts[i])

IPv6Hextets(text) ==
    LET parts == IPv6Parts(text)
        hi == PartsHi(parts)
        lo == PartsLo(parts)
    IN  [i \in 1..8 |->
            IF i <= hi THEN ParseInt(parts[i], 16, 0)
            ELSE IF i > 8 - lo THEN ParseInt(parts[Len(parts) - (8 - i)], 16, 0)
            ELSE 0]

\* ip_address(text): IPv4Address first, then IPv6Address, else ValueError
\* (None stands for the raised exception)
ip_address(text) ==
    IF IPv4Ok(text) THEN Some([version |-> 4, parts |-> IPv4Octets(text)])
    ELSE IF IPv6Ok(text) THEN Some([version |-> 6, parts |-> IPv6Hextets(text)])
    ELSE None

\* isinstance(a, IPv4Address)
IsInstanceIPv4Address(a) == a.version = 4

\* IPv6Address._compress_hextets: the first longest run of zero hextets,
\* as <<start, length>>
ZeroRunAt(h, i) ==
    IF h[i] # 0 THEN 0
    ELSE (CHOOSE j \in i..(Len(h) + 1) :
              /\ \A k \in i..(j - 1) : h[k] = 0
              /\ (j = Len(h) + 1 \/ h[j] # 0)) - i
BestRun(h) ==
    LET starts == {i \in 1..Len(h) : h[i] = 0 /\ (i = 1 \/ h[i - 1] # 0)}
        best == CHOOSE i \in starts :
                    \A j \in starts :
                        \/ ZeroRunAt(h, i) > ZeroRunAt(h, j)
                        \/ (ZeroRunAt(h, i) = ZeroRunAt(h, j) /\ i <= j)
    IN  IF starts = {} THEN <<0, 0>> ELSE <<best, ZeroRunAt(h, best)>>

\* str(address)
address_str(a) ==
    IF a.version = 4
    THEN Join([i \in 1..4 |-> Format(a.parts[i], 10)], ".")
    ELSE LET hex == [i \in 1..8 |-> Format(a.parts[i], 16)]
             run == BestRun(a.parts)
             start == run[1]
             end == run[1] + run[2]
         IN  IF run[2] > 1
             THEN Join((IF start = 1 THEN <<(<<>>)>> ELSE <<>>)
                       \o SubSeq(hex, 1, start - 1)
                       \o <<(<<>>)>>
                       \o SubSeq(hex, end, 8)
                       \o (IF end = 9 THEN <<(<<>>)>> ELSE <<>>), ":")
             ELSE Join(hex, ":")

(***************************************************************************)
(* The outcome of one blocking requests.get / requests.put call: the call  *)
(* raised (request not sent or no response received), or a response with   *)
(* a status code and a body.                                               *)
(***************************************************************************)
Raised == [raised |-> TRUE, status_code |-> 0, text |-> <<>>]
Response(status, text) == [raised |-> FALSE, status_code |-> status, text |-> text]

Statuses == {StatusOk, StatusCreated, 204, 500}

Bodies ==
    {<<"2", "0", "3", ".", "0", ".", "1", "1", "3", ".", "7">>,
     <<"n", "o", "t", "-", "a", "n", "-", "i", "p">>,
     <<>>,
     <<"0", "1", ".", "2", ".", "3", ".", "4">>,
     <<"2", "0", "0", "1", ":", "D", "B", "8", ":", ":", "1">>,
     <<":", ":", "1">>}

GetOutcomes == {Raised} \cup {Response(st, b) : st \in Statuses, b \in Bodies}
PutOutcomes == {Raised} \cup {Response(st, <<>>) : st \in Statuses}

\* get_ip_address without the status check
get_ip_address_ignore_status(r) ==
    IF r.raised THEN None
    ELSE ip_address(r.text)

\* get_ip_address that returns None for an address that is not IPv4
get_ip_address_reject_v6(r) ==
    IF r.raised THEN None
    ELSE IF r.status_code # StatusOk THEN None
    ELSE IF ip_address(r.text) = None THEN None
    ELSE IF ~IsInstanceIPv4Address(Get(ip_address(r.text))) THEN None
    ELSE ip_address(r.text)

\* get_ip_address's return value when requests.get has outcome r
get_ip_address(r) ==
    IF r.raised THEN None
    ELSE IF r.status_code # StatusOk THEN None
    ELSE ip_address(r.text)

\* the number of times get_ip_address calls ip_address() on the body
get_ip_address_parses(r) ==
    IF r.raised THEN 0
    ELSE IF r.status_code # StatusOk THEN 0
    ELSE 1

\* the lines get_ip_address logs
get_ip_address_log(r) ==
    <<"Requesting public IP address...">>
    \o (IF r.raised THEN <<"Failed to reach public IP address service">>
        ELSE IF r.status_code # StatusOk
             THEN <<"Failed to retrieve public IP address.">>
        ELSE IF ip_address(r.text) = None
             THEN <<"Retrieved value is not a valid IP address">>
        ELSE (IF ~IsInstanceIPv4Address(Get(ip_address(r.text)))
              THEN <<"Expected address to be an IPv4Address">>
              ELSE <<>>)
             \o <<"Retrieved public IP address.">>)

\* the request update_domain hands to requests.put
put_request(a, c) ==
    [url |-> "https://api.gandi.net/v5/livedns/domains/" \o c.domain.s
               \o "/records/@/A",
     headers |-> [Authorization |-> "Bearer " \o c.pat.s],
     json |-> [rrset_ttl |-> c.ttl, rrset_values |-> <<address_str(a)>>]]

\* update_domain that accepts every 2xx status
update_domain_any_2xx(r) ==
    IF r.raised THEN FALSE
    ELSE IF r.status_code < 200 \/ r.status_code > 299 THEN FALSE
    ELSE TRUE

\* update_domain's return value when requests.put has outcome r
update_domain(r) ==
    IF r.raised THEN FALSE
    ELSE IF r.status_code # StatusCreated THEN FALSE
    ELSE TRUE

\* the lines update_domain logs
update_domain_log(r) ==
    <<"Updating DNS record...">>
    \o (IF r.raised THEN <<"Failed to reach DNS registrar service">>
        ELSE IF r.status_code # StatusCreated
             THEN <<"Failed to update DNS entry.">>
        ELSE <<"DNS entry updated.">>)

(***************************************************************************)
(* The run.                                                                *)
(***************************************************************************)
Argvs == {[i \in 1..(n + 1) |-> IF i = 1 THEN "main.py" ELSE "config.json"] :
              n \in 0..MaxArgs}

Init ==
    /\ argv \in Argvs
    /\ file \in Files
    /\ pc = "main"
    /\ config = None
    /\ address = None
    /\ result = None
    /\ exit_code = None
    /\ steps = <<>>
    /\ get_response = None
    /\ parse_calls = 0
    /\ puts = <<>>
    /\ put_response = None
    /\ log_lines = <<>>

\* main_check_args that logs the usage error but does not return
main_check_args_no_return ==
    /\ pc = "main"
    /\ log_lines' = log_lines
          \o (IF Len(argv) # 2
              THEN <<"Running script...", "Incorrect number of arguments.">>
              ELSE <<"Running script...">>)
    /\ result' = result
    /\ pc' = "load_config"
    /\ UNCHANGED <<argv, file, config, address, exit_code, steps,
                   get_response, parse_calls, puts, put_response>>

\* __main__ starts main(); main checks the number of arguments
main_check_args ==
    /\ pc = "main"
    /\ IF Len(argv) # 2
       THEN /\ log_lines' = log_lines
                  \o <<"Running script...", "Incorrect number of arguments.">>
            /\ result' = Some(FALSE)
            /\ pc' = "returned"
       ELSE /\ log_lines' = log_lines \o <<"Running script...">>
            /\ result' = result
            /\ pc' = "load_config"
    /\ UNCHANGED <<argv, file, config, address, exit_code, steps,
                   get_response, parse_calls, puts, put_response>>

\* config = load_config(path); if config is None: return False
main_load_config ==
    /\ pc = "load_config"
    /\ steps' = Append(steps, "load_config")
    /\ config' = load_config(file)
    /\ log_lines' = log_lines \o load_config_log(file)
    /\ IF config' = None
       THEN result' = Some(FALSE) /\ pc' = "returned"
       ELSE result' = result /\ pc' = "get_ip_address"
    /\ UNCHANGED <<argv, file, address, exit_code, get_response, parse_calls,
                   puts, put_response>>

\* address = get_ip_address(); if address is None: return False
main_get_ip_address ==
    /\ pc = "get_ip_address"
    /\ \E r \in GetOutcomes :
        /\ steps' = Append(steps, "GET")
        /\ get_response' = Some(r)
        /\ parse_calls' = parse_calls + get_ip_address_parses(r)
        /\ address' = get_ip_address(r)
        /\ log_lines' = log_lines \o get_ip_address_log(r)
    /\ IF address' = None
       THEN result' = Some(FALSE) /\ pc' = "returned"
       ELSE result' = result /\ pc' = "update_domain"
    /\ UNCHANGED <<argv, file, config, exit_code, puts, put_response>>

\* main_update_domain that calls update_domain once more after a failure
main_update_domain_retry ==
    /\ pc = "update_domain"
    /\ \E r \in PutOutcomes :
        /\ steps' = Append(steps, "PUT")
        /\ puts' = Append(puts, put_request(Get(address), Get(config)))
        /\ put_response' = Some(r)
        /\ log_lines' = log_lines \o update_domain_log(r)
        /\ IF ~update_domain(r) /\ puts = <<>>
           THEN result' = result /\ pc' = "update_domain"
           ELSE result' = Some(update_domain(r)) /\ pc' = "returned"
    /\ UNCHANGED <<argv, file, config, address, exit_code, get_response,
                   parse_calls>>

\* if not update_domain(address, config): return False; return True
main_update_domain ==
    /\ pc = "update_domain"
    /\ \E r \in PutOutcomes :
        /\ steps' = Append(steps, "PUT")
        /\ puts' = Append(puts, put_request(Get(address), Get(config)))
        /\ put_response' = Some(r)
        /\ log_lines' = log_lines \o update_domain_log(r)
        /\ result' = Some(update_domain(r))
    /\ pc' = "returned"
    /\ UNCHANGED <<argv, file, config, address, exit_code, get_response,
                   parse_calls>>

\* script_exit that exits with 0 whatever main() returned
script_exit_always_zero ==
    /\ pc = "returned"
    /\ IF Get(result)
       THEN log_lines' = Append(log_lines, "Script succeeded.")
       ELSE log_lines' = Append(log_lines, "Script failed.")
    /\ exit_code' = Some(0)
    /\ pc' = "exited"
    /\ UNCHANGED <<argv, file, config, address, result, steps, get_response,
                   parse_calls, puts, put_response>>

\* if main(): exit(0) else: exit(1)
script_exit ==
    /\ pc = "returned"
    /\ IF Get(result)
       THEN /\ log_lines' = Append(log_lines, "Script succeeded.")
            /\ exit_code' = Some(0)
       ELSE /\ log_lines' = Append(log_lines, "Script failed.")
            /\ exit_code' = Some(1)
    /\ pc' = "exited"
    /\ UNCHANGED <<argv, file, config, address, result, steps, get_response,
                   parse_calls, puts, put_response>>

Next ==
    \/ main_check_args
    \/ main_load_config
    \/ main_get_ip_address
    \/ main_update_domain
    \/ script_exit

Spec == Init /\ [][Next]_vars

(***************************************************************************)
(* Properties.                                                             *)
(***************************************************************************)
Count(seq, x) == Cardinality({i \in DOMAIN seq : seq[i] = x})
IsPrefix(a, b) == Len(a) <= Len(b) /\ \A i \in 1..Len(a) : a[i] = b[i]
Returned == pc \in {"returned", "exited"}
Loaded == Len(steps) >= 1
ThreeFields == {"pat", "domain", "ttl"}
\* the file holds a JSON object with exactly the three fields
WellFormed(f) ==
    f.readable /\ f.json /\ f.object /\ DOMAIN f.members = ThreeFields
\* the PUT was answered with status 201
PutCreated ==
    /\ put_response # None
    /\ ~Get(put_response).raised
    /\ Get(put_response).status_code = StatusCreated
TextV4 == <<"2", "0", "3", ".", "0", ".", "1", "1", "3", ".", "7">>
TextNotAnIp == <<"n", "o", "t", "-", "a", "n", "-", "i", "p">>

\* C1: the process exits with status 0 exactly when one argument was given,
\* load_config returned a Configuration, get_ip_address returned an address
\* and the PUT was answered with 201; every other run exits with status 1.
C1_ExitStatus ==
    pc = "exited" =>
        /\ exit_code \in {Some(0), Some(1)}
        /\ exit_code = Some(0) <=>
               /\ Len(argv) = 2
               /\ config # None
               /\ address # None
               /\ PutCreated
        /\ exit_code = Some(1) <=>
               \/ Len(argv) # 2
               \/ load_config(file) = None
               \/ get_response = None
               \/ get_ip_address(Get(get_response)) = None
               \/ ~PutCreated

C1_Witness ==
    /\ pc = "exited"
    /\ exit_code = Some(0)
    /\ Len(argv) = 2
    /\ PutCreated

\* C2: the steps run only in the order load config, GET, PUT; the file is
\* read only with exactly one argument, the GET is issued only after
\* load_config returned a Configuration, the PUT only after get_ip_address
\* returned an address, and no step runs after a failed one.
C2_StepOrder ==
    /\ IsPrefix(steps, <<"load_config", "GET", "PUT">>)
    /\ Len(steps) >= 1 => Len(argv) = 2
    /\ Len(steps) >= 2 => config # None /\ config = load_config(file)
    /\ Len(steps) >= 3 =>
           address # None /\ address = get_ip_address(Get(get_response))
    /\ Len(argv) # 2 /\ pc # "main" => steps = <<>> /\ Returned
    /\ Loaded /\ load_config(file) = None => Len(steps) = 1 /\ Returned
    /\ get_response # None /\ get_ip_address(Get(get_response)) = None =>
           Len(steps) = 2 /\ Returned

C2_Witness ==
    /\ pc = "exited"
    /\ steps = <<"load_config", "GET">>
    /\ address = None
    /\ puts = <<>>

\* C3: a well-formed config (exactly pat, domain, ttl) whose ttl is a number
\* below 300 is rejected by load_config whatever pat and domain hold.
TtlBelowMin(j) ==
    \/ j.jt = "integer" /\ j.n < MinTtl
    \/ j.jt = "real" /\ j.n < 2 * MinTtl
C3_LowTtlRejected ==
    Loaded /\ WellFormed(file) /\ TtlBelowMin(file.members["ttl"]) =>
        config = None /\ result = Some(FALSE)

C3_Witness ==
    /\ Loaded
    /\ WellFormed(file)
    /\ file.members["pat"] = JString("tok")
    /\ file.members["domain"] = JString("example.com")
    /\ file.members["ttl"] = JInteger(MinTtl - 1)
    /\ config = None

\* C4: a config that misses a field, carries an extra field, is not a JSON
\* object, or has a pat or domain that is not text or a ttl that is not an
\* integer makes load_config return None, and the run ends as a failure
\* instead of a fault; every Configuration returned has pat text, domain
\* text and ttl an integer >= 300.
Malformed(f) ==
    \/ ~f.readable
    \/ ~f.json
    \/ ~f.object
    \/ DOMAIN f.members # ThreeFields
    \/ f.members["pat"].jt # "string"
    \/ f.members["domain"].jt # "string"
    \/ f.members["ttl"].jt # "integer"
C4_MalformedRejected ==
    Loaded =>
        /\ Malformed(file) => config = None /\ result = Some(FALSE) /\ Returned
        /\ config # None =>
               /\ Get(config).pat.t = "str"
               /\ Get(config).domain.t = "str"
               /\ Get(config).ttl.t = "int"
               /\ Get(config).ttl.n >= MinTtl

C4_Witness ==
    /\ Loaded
    /\ WellFormed(file)
    /\ file.members["pat"] = JString("tok")
    /\ file.members["domain"] = JString("example.com")
    /\ file.members["ttl"] = JTrue
    /\ config = None
    /\ pc = "exited"

\* C5: round trip: a valid configuration written as a config file and loaded
\* with load_config comes back with identical pat, domain and ttl.
ValidConfigs ==
    {Config(PyStr(p), PyStr(d), PyInt(t)) :
        p \in Texts, d \in Texts, t \in {n \in IntLiterals : n >= MinTtl}}
\* the config file of section 6 holding c
config_file(c) ==
    [readable |-> TRUE, json |-> TRUE, object |-> TRUE, value |-> JNull,
     members |-> [k \in ThreeFields |->
                     IF k = "pat" THEN JString(c.pat.s)
                     ELSE IF k = "domain" THEN JString(c.domain.s)
                     ELSE JInteger(c.ttl.n)]]
C5_RoundTrip ==
    \A c \in ValidConfigs :
        Loaded /\ file = config_file(c) => config = Some(c)

C5_Witness ==
    /\ Loaded
    /\ file = config_file(Config(PyStr("tok"), PyStr("example.com"),
                                 PyInt(MinTtl + 1)))
    /\ config = Some(Config(PyStr("tok"), PyStr("example.com"),
                            PyInt(MinTtl + 1)))

\* C6: a response whose status is not 200 makes get_ip_address fail without
\* parsing the body, even a body that is a valid address; a 200 response
\* whose body is not a valid address makes it fail after the parse attempt;
\* in both cases no PUT is issued.
C6_ResolverFailures ==
    get_response # None /\ ~Get(get_response).raised =>
        LET r == Get(get_response) IN
            /\ r.status_code # StatusOk =>
                   /\ parse_calls = 0
                   /\ address = None
                   /\ result = Some(FALSE)
                   /\ puts = <<>>
            /\ r.status_code = StatusOk /\ ~IPv4Ok(r.text) /\ ~IPv6Ok(r.text) =>
                   /\ parse_calls = 1
                   /\ address = None
                   /\ result = Some(FALSE)
                   /\ puts = <<>>
            /\ r.status_code = StatusOk /\ r.text \in {TextNotAnIp, <<>>} =>
                   address = None /\ puts = <<>>

C6_Witness ==
    /\ pc = "exited"
    /\ get_response = Some(Response(500, TextV4))
    /\ parse_calls = 0
    /\ address = None

\* C7: a 200 response whose body is a valid IPv6 address makes
\* get_ip_address log a warning and return the address; the PUT to the apex
\* A record is issued with that address as the only rrset_values element
\* and the PUT's status alone decides the exit status.
IsV6Response ==
    /\ get_response # None
    /\ ~Get(get_response).raised
    /\ Get(get_response).status_code = StatusOk
    /\ ~IPv4Ok(Get(get_response).text)
    /\ IPv6Ok(Get(get_response).text)
C7_IPv6Proceeds ==
    IsV6Response =>
        /\ address # None
        /\ Get(address).version = 6
        /\ Get(address).parts = IPv6Hextets(Get(get_response).text)
        /\ Count(log_lines, "Expected address to be an IPv4Address") = 1
        /\ pc \in {"update_domain", "returned", "exited"}
        /\ Returned =>
               /\ Len(puts) = 1
               /\ puts[1].json.rrset_values = <<address_str(Get(address))>>
               /\ puts[1].url =
                      "https://api.gandi.net/v5/livedns/domains/"
                      \o Get(config).domain.s \o "/records/@/A"
               /\ result = Some(PutCreated)
        /\ pc = "exited" => (exit_code = Some(0) <=> PutCreated)

C7_Witness ==
    /\ IsV6Response
    /\ pc = "exited"
    /\ exit_code = Some(0)
    /\ Get(get_response).text =
           <<"2", "0", "0", "1", ":", "D", "B", "8", ":", ":", "1">>
    /\ puts[1].json.rrset_values =
           << <<"2", "0", "0", "1", ":", "d", "b", "8", ":", ":", "1">> >>

\* C8: update_domain issues one PUT to .../domains/{domain}/records/@/A with
\* header Authorization 'Bearer ' + pat and a JSON body whose rrset_ttl is
\* the configured ttl and whose rrset_values is the one-element list of the
\* address's text; it returns success exactly when the status is 201.
C8_PutRequest ==
    put_response # None =>
        /\ Len(puts) = 1
        /\ puts[1].url =
               "https://api.gandi.net/v5/livedns/domains/"
               \o Get(config).domain.s \o "/records/@/A"
        /\ DOMAIN puts[1].headers = {"Authorization"}
        /\ puts[1].headers.Authorization = "Bearer " \o Get(config).pat.s
        /\ DOMAIN puts[1].json = {"rrset_ttl", "rrset_values"}
        /\ puts[1].json.rrset_ttl = Get(config).ttl
        /\ puts[1].json.rrset_values = <<address_str(Get(address))>>
        /\ result = Some(TRUE) <=> PutCreated
        /\ result = Some(FALSE) <=> ~PutCreated

C8_Witness ==
    /\ put_response = Some(Response(StatusOk, <<>>))
    /\ result = Some(FALSE)
    /\ puts = <<[url |-> "https://api.gandi.net/v5/livedns/domains/example.com/records/@/A",
                 headers |-> [Authorization |-> "Bearer tok"],
                 json |-> [rrset_ttl |-> PyInt(MinTtl),
                           rrset_values |-> <<TextV4>>]]>>

\* C9: nothing is retried: at most one GET and at most one PUT are issued,
\* a failure leads directly to the failed end of main, and a run in which
\* config loading and address resolution succeeded issues exactly one PUT.
C9_NoRetry ==
    /\ Count(steps, "GET") <= 1
    /\ Count(steps, "PUT") <= 1
    /\ Len(puts) = Count(steps, "PUT")
    /\ get_response # None <=> Count(steps, "GET") = 1
    /\ put_response # None <=> Count(steps, "PUT") = 1
    /\ result = Some(FALSE) => Returned
    /\ put_response # None /\ ~PutCreated => result = Some(FALSE)
    /\ Returned /\ config # None /\ address # None => Len(puts) = 1

C9_Witness ==
    /\ pc = "exited"
    /\ put_response = Some(Raised)
    /\ Len(puts) = 1
    /\ exit_code = Some(1)

\* C10: every PUT carries an rrset_ttl that is an integer >= 300 and the
\* pat and domain read from the config file of the run; the Configuration
\* is the one load_config returned, unchanged.
C10_PutFromValidConfig ==
    /\ \A i \in 1..Len(puts) :
           /\ puts[i].json.rrset_ttl.t = "int"
           /\ puts[i].json.rrset_ttl.n >= MinTtl
           /\ WellFormed(file)
           /\ file.members["ttl"] = JInteger(puts[i].json.rrset_ttl.n)
           /\ file.members["pat"].jt = "string"
           /\ file.members["domain"].jt = "string"
           /\ puts[i].headers.Authorization =
                  "Bearer " \o file.members["pat"].s
           /\ puts[i].url =
                  "https://api.gandi.net/v5/livedns/domains/"
                  \o file.members["domain"].s \o "/records/@/A"
    /\ Loaded => config = load_config(file)

C10_Witness ==
    /\ Len(puts) = 1
    /\ puts[1].json.rrset_ttl = PyInt(MinTtl)
    /\ file.members["ttl"] = JInteger(MinTtl)
    /\ file.members["pat"] = JString("")
====
